---------------------------- MODULE Spec2Model ----------------------------
(***************************************************************************)
(* Model of diamonds (src/main.go): a terminal tool that keeps, per        *)
(* project, a list of hex colors and a list of named URLs.  The program is *)
(* a Bubble Tea model: every message is handed to Update, which dispatches *)
(* on the current view, and View renders the model after every Update.     *)
(*                                                                         *)
(* Go strings are byte sequences: a string is modelled as a sequence of    *)
(* bytes (0..255), len() is Len, s[:len(s)-1] drops one byte, and          *)
(* string(msg.Runes) is the UTF-8 encoding of the runes.                   *)
(***************************************************************************)
EXTENDS Naturals, Sequences, FiniteSets

VARIABLES
    projectList,      \* model.projectList: the list widget (items, index)
    projects,         \* model.projects
    currentView,      \* model.currentView
    cursor,           \* model.cursor
    selectedProject,  \* model.selectedProject
    inputBuffer,      \* model.inputBuffer
    urlNameBuffer,    \* model.urlNameBuffer
    focusedField,     \* model.focusedField
    message,          \* model.message
    file,             \* the data file data.json
    clipboard,        \* history: the clipboard write of that Update
    exit,             \* "running", or how the process ended
    phase,            \* position in the event loop: "update" or "view"
    lastKey,          \* history: the message Update has just processed
    lastSave,         \* history: outcome of saveProjects in that Update
    rendered          \* history: the status message the last View displayed

modelVars == <<projectList, projects, currentView, cursor, selectedProject,
               inputBuffer, urlNameBuffer, focusedField, message>>
vars == <<projectList, projects, currentView, cursor, selectedProject,
          inputBuffer, urlNameBuffer, focusedField, message,
          file, clipboard, exit, phase, lastKey, lastSave, rendered>>

(***************************************************************************)
(* Bounds of the model.                                                    *)
(***************************************************************************)
\* most bytes a name or URL buffer (AddProject, AddUrl) is let to grow to
MaxName == 1
\* most bytes the AddColor buffer is let to grow to
MaxHex == 5
\* most bytes the AddColor buffer is let to grow to when only AddColor runs
MaxTyped == 8
\* most runes one key message carries (more than one: a paste)
MaxRunes == 2
\* most projects, colors and URLs together the store is let to grow to
MaxEntities == 3

\* the runes typed into the text views: '#' and U+00E9 (two bytes in UTF-8)
Alphabet == {35, 233}

(***************************************************************************)
(* Strings.                                                                *)
(***************************************************************************)
\* utf8 encoding of one rune below U+0800, as string(rune) produces it
EncodeRune(r) ==
    IF r < 128 THEN <<r>> ELSE <<192 + (r \div 64), 128 + (r % 64)>>

RECURSIVE RunesToString(_)
\* string(msg.Runes)
RunesToString(rs) ==
    IF rs = <<>> THEN <<>>
    ELSE EncodeRune(Head(rs)) \o RunesToString(Tail(rs))

IsCont(b) == b >= 128 /\ b <= 191

\* number of bytes of the valid UTF-8 sequence s starts with, 0 when it starts
\* with an invalid byte (sequences of one, two and three bytes)
ValidPrefix(s) ==
    IF s[1] < 128 THEN 1
    ELSE IF s[1] >= 194 /\ s[1] <= 223 /\ Len(s) >= 2 /\ IsCont(s[2]) THEN 2
    ELSE IF s[1] >= 224 /\ s[1] <= 239 /\ Len(s) >= 3
            /\ IsCont(s[2]) /\ IsCont(s[3]) THEN 3
    ELSE 0

RECURSIVE RuneCount(_)
\* utf8.RuneCountInString: the logical characters of s, an invalid byte
\* counting as one
RuneCount(s) ==
    IF s = <<>> THEN 0
    ELSE LET w == ValidPrefix(s)
         IN  1 + RuneCount(SubSeq(s, (IF w = 0 THEN 1 ELSE w) + 1, Len(s)))

RECURSIVE CoerceUTF8(_)
\* encoding/json writes a string coerced to valid UTF-8: every invalid byte
\* becomes U+FFFD (EF BF BD)
CoerceUTF8(s) ==
    IF s = <<>> THEN <<>>
    ELSE LET w == ValidPrefix(s)
         IN  IF w = 0
             THEN <<239, 191, 189>> \o CoerceUTF8(Tail(s))
             ELSE SubSeq(s, 1, w) \o CoerceUTF8(SubSeq(s, w + 1, Len(s)))

HasPrefixHash(s) == Len(s) >= 1 /\ s[1] = 35

\* s[:len(s)-1]
DropLastByte(s) == SubSeq(s, 1, Len(s) - 1)

(***************************************************************************)
(* Persistence: the JSON document and the data file.                       *)
(***************************************************************************)
NoMessage == [kind |-> "none", text |-> <<>>]
ErrorMessage(what) == [kind |-> what, text |-> <<>>]
CopiedMessage(s) == [kind |-> "Copied", text |-> s]

NoCopy == [written |-> FALSE, text |-> <<>>, ok |-> FALSE]

AbsentFile == [kind |-> "absent", doc |-> <<>>]
DamagedFile == [kind |-> "damaged", doc |-> <<>>]
JsonFile(d) == [kind |-> "json", doc |-> d]

\* json.MarshalIndent(m.projects): objects with the keys of the struct tags,
\* strings coerced to valid UTF-8
MarshalIndent(ps) ==
    [i \in 1..Len(ps) |->
        [name |-> CoerceUTF8(ps[i].Name),
         colors |-> [j \in 1..Len(ps[i].Colors) |-> CoerceUTF8(ps[i].Colors[j])],
         urls |-> [j \in 1..Len(ps[i].Urls) |->
                     [name |-> CoerceUTF8(ps[i].Urls[j].Name),
                      url |-> CoerceUTF8(ps[i].Urls[j].URL)]]]]

\* json.Unmarshal(data, &projects)
Unmarshal(d) ==
    [i \in 1..Len(d) |->
        [Name |-> d[i].name,
         Colors |-> d[i].colors,
         Urls |-> [j \in 1..Len(d[i].urls) |->
                     [Name |-> d[i].urls[j].name, URL |-> d[i].urls[j].url]]]]

\* LoadProjects taking a file it cannot read or parse for no file
LoadProjectsLenient(f) ==
    IF f.kind = "json" THEN [err |-> FALSE, projects |-> Unmarshal(f.doc)]
    ELSE [err |-> FALSE, projects |-> <<>>]

\* what loadProjects returns for a file: the projects, or an error
LoadProjects(f) ==
    IF f.kind = "absent" THEN [err |-> FALSE, projects |-> <<>>]
    ELSE IF f.kind = "damaged" THEN [err |-> TRUE, projects |-> <<>>]
    ELSE [err |-> FALSE, projects |-> Unmarshal(f.doc)]

\* outcomes of saveProjects: written; getDataFilePath fails; os.WriteFile
\* fails opening the file, fails writing after truncating it, or fails closing
\* it after the data was written
SaveOutcomes == {"ok", "patherr", "openerr", "writeerr", "closeerr"}

\* the file after saveProjects of ps with outcome r
SavedFile(ps, r) ==
    IF r \in {"ok", "closeerr"} THEN JsonFile(MarshalIndent(ps))
    ELSE IF r = "writeerr" THEN DamagedFile
    ELSE file

\* SavedMessage reporting nothing
SavedMessageSilent(r) == message

\* m.message after saveProjects with outcome r
SavedMessage(r) ==
    IF r = "ok" THEN message
    ELSE IF r = "patherr" THEN ErrorMessage("Error getting data path")
    ELSE ErrorMessage("Error writing data")


(***************************************************************************)
(* Messages.  A key message has a type and, for KeyRunes, its runes;       *)
(* msg.String() of a KeyRunes message is the text of its runes.            *)
(***************************************************************************)
Key(t) == [type |-> t, runes |-> <<>>]
Runes(rs) == [type |-> "runes", runes |-> rs]

\* the non-empty rune sequences over Alphabet of at most n runes
RuneSeqs(n) == UNION {[1..k -> Alphabet] : k \in 1..n}

\* 'q', 'n', 'k', 'j': the letters the list views bind to commands
CommandKeys == {Runes(<<113>>), Runes(<<110>>), Runes(<<107>>), Runes(<<106>>)}

\* typed or pasted text
TextKeys == {Runes(rs) : rs \in RuneSeqs(MaxRunes)}

\* The key messages offered in a view: the keys its handler names, typed
\* text, and "left" for every key the handler does not name (they all take
\* its default branch with a type other than KeyRunes).  In the text views the
\* command letters are ordinary letters, and typed text is drawn from Alphabet.
KeyMsgs ==
    CASE currentView = "AddProjectView" ->
            {Key("enter"), Key("esc"), Key("backspace"), Key("space"),
             Key("ctrl+c"), Key("left")} \cup TextKeys
      [] currentView = "AddColorView" ->
            {Key("enter"), Key("esc"), Key("backspace"), Key("ctrl+c"),
             Key("left")} \cup TextKeys
      [] currentView = "AddUrlView" ->
            {Key("enter"), Key("esc"), Key("backspace"), Key("space"),
             Key("tab"), Key("ctrl+c"), Key("left")} \cup TextKeys
      [] OTHER ->
            {Key("enter"), Key("esc"), Key("up"), Key("down"), Key("ctrl+c"),
             Key("left")} \cup CommandKeys

IsKey(msg, t) == msg.type = t
IsRune(msg, r) == msg.type = "runes" /\ msg.runes = <<r>>
\* IsQuitKey without the letter q
IsQuitKeyInterrupt(msg) == IsKey(msg, "ctrl+c")

\* the quit keys of the four list views: "ctrl+c", "q"
IsQuitKey(msg) == IsKey(msg, "ctrl+c") \/ IsRune(msg, 113)
IsUpKey(msg) == IsKey(msg, "up") \/ IsRune(msg, 107)
IsDownKey(msg) == IsKey(msg, "down") \/ IsRune(msg, 106)
IsNewKey(msg) == IsRune(msg, 110)

(***************************************************************************)
(* Helpers of the handlers.                                                *)
(***************************************************************************)
\* the items updateProjectListItems builds from the projects
ProjectItems(ps) ==
    [i \in 1..Len(ps) |-> [name |-> ps[i].Name,
                           colorCount |-> Len(ps[i].Colors),
                           urlCount |-> Len(ps[i].Urls)]]

\* the project m.projects[m.selectedProject]
Selected == projects[selectedProject + 1]

Min(S) == CHOOSE x \in S : \A y \in S : x <= y

RECURSIVE ItemCount(_)
ItemCount(ps) ==
    IF ps = <<>> THEN 0
    ELSE Len(Head(ps).Colors) + Len(Head(ps).Urls) + ItemCount(Tail(ps))

\* projects, colors and URLs in the store
Entities(ps) == Len(ps) + ItemCount(ps)

\* the cursor after "up": if m.cursor > 0 { m.cursor-- }
CursorUp(c) == IF c > 0 THEN c - 1 ELSE c

\* CursorDown without its test against the end of the list
CursorDownUnclamped(c, n) == c + 1

\* the cursor after "down" in a list of n entries:
\* if m.cursor < n-1 { m.cursor++ }
CursorDown(c, n) == IF c + 1 < n THEN c + 1 ELSE c

\* ValidProjectName without the test for the empty buffer
AnyProjectName(buf) == TRUE

\* the condition under which updateAddProject appends a project
ValidProjectName(buf) == buf # <<>>

\* the condition under which updateAddColor appends a color
ValidHex(buf) ==
    buf # <<>> /\ HasPrefixHash(buf) /\ (Len(buf) = 7 \/ Len(buf) = 4)

\* ValidUrl without the test of the name
ValidUrlIgnoringName(name, url) == url # <<>>

\* the condition under which updateAddUrl appends a URL on field 1
ValidUrl(name, url) == name # <<>> /\ url # <<>>

\* msg.String() for the keys the handlers name ("q", "n", "k", "j" are KeyRunes
\* messages of one rune), "runes" for any other text
KeyName(msg) ==
    IF msg.type # "runes" THEN msg.type
    ELSE IF msg.runes = <<113>> THEN "q"
    ELSE IF msg.runes = <<110>> THEN "n"
    ELSE IF msg.runes = <<107>> THEN "k"
    ELSE IF msg.runes = <<106>> THEN "j"
    ELSE "runes"

\* the history variables after Update has processed msg
Processed(msg, save) ==
    /\ phase' = "view"
    /\ lastKey' = KeyName(msg)
    /\ lastSave' = save
    /\ rendered' = NoMessage

Running == exit = "running" /\ phase = "update"

\* return m, tea.Quit
Quit(msg) ==
    /\ exit' = "exit0"
    /\ Processed(msg, "none")
    /\ UNCHANGED <<modelVars, file, clipboard>>

\* return m, nil with the model as it was
Ignore(msg) ==
    /\ Processed(msg, "none")
    /\ UNCHANGED <<modelVars, file, clipboard, exit>>

(***************************************************************************)
(* Startup.                                                                *)
(***************************************************************************)
\* a data file written by an earlier session
Doc1 == <<[name |-> <<195, 169>>,
           colors |-> << <<35, 35, 35, 35>>, <<35, 195, 169, 35, 35, 35, 35>> >>,
           urls |-> << [name |-> <<35>>, url |-> <<35, 35>>],
                       [name |-> <<195, 169>>, url |-> <<35>>],
                       [name |-> <<35>>, url |-> <<35>>] >>]>>

InitFiles == {AbsentFile, DamagedFile, JsonFile(Doc1)}

\* main: initialModel loads the projects, or prints the error and exits 1
Init ==
    /\ file \in InitFiles
    /\ LET loaded == LoadProjects(file)
       IN  /\ projects = loaded.projects
           /\ projectList = [items |-> ProjectItems(loaded.projects), index |-> 0]
           /\ exit = IF loaded.err THEN "exit1" ELSE "running"
    /\ currentView = "ProjectListView"
    /\ cursor = 0
    /\ selectedProject = 0
    /\ inputBuffer = <<>>
    /\ urlNameBuffer = <<>>
    /\ focusedField = 0
    /\ message = NoMessage
    /\ clipboard = NoCopy
    /\ phase = "view"
    /\ lastKey = "none"
    /\ lastSave = "none"
    /\ rendered = NoMessage

(***************************************************************************)
(* The list views.                                                         *)
(***************************************************************************)
\* m.projectList.Update(msg) of the bubbles list (filtering disabled): up/k
\* and down/j move its cursor without wrapping, esc (with q, handled before)
\* is its quit binding, any other key offered here leaves it as it is.
ListUpdate(msg) ==
    \/ /\ IsKey(msg, "esc")
       /\ Quit(msg)
    \/ /\ IsUpKey(msg)
       /\ projectList' = [projectList EXCEPT !.index = CursorUp(@)]
       /\ Processed(msg, "none")
       /\ UNCHANGED <<projects, currentView, cursor, selectedProject, inputBuffer,
                      urlNameBuffer, focusedField, message, file, clipboard, exit>>
    \/ /\ IsDownKey(msg)
       /\ projectList' =
            [projectList EXCEPT !.index = CursorDown(@, Len(projectList.items))]
       /\ Processed(msg, "none")
       /\ UNCHANGED <<projects, currentView, cursor, selectedProject, inputBuffer,
                      urlNameBuffer, focusedField, message, file, clipboard, exit>>
    \/ /\ ~IsKey(msg, "esc") /\ ~IsUpKey(msg) /\ ~IsDownKey(msg)
       /\ Ignore(msg)

\* SelectedProjectIndex counting the projects from 1
SelectedProjectIndexFromOne ==
    IF projectList.index >= Len(projectList.items) THEN 0 - 1
    ELSE projectList.index + 1

\* the index of the first project named as the list's selected item, as the
\* loop of updateProjectList finds it; -1 when there is none
SelectedProjectIndex ==
    IF projectList.index >= Len(projectList.items) THEN 0 - 1
    ELSE LET name == projectList.items[projectList.index + 1].name
             hits == {i \in 1..Len(projects) : projects[i].Name = name}
         IN  IF hits = {} THEN 0 - 1 ELSE Min(hits) - 1

UpdateProjectList(msg) ==
    /\ Running
    /\ currentView = "ProjectListView"
    /\ \/ /\ IsQuitKey(msg)
          /\ Quit(msg)
       \/ /\ IsKey(msg, "enter")
          /\ SelectedProjectIndex >= 0
          /\ selectedProject' = SelectedProjectIndex
          /\ currentView' = "ProjectMenuView"
          /\ cursor' = 0
          /\ Processed(msg, "none")
          /\ UNCHANGED <<projectList, projects, inputBuffer, urlNameBuffer,
                         focusedField, message, file, clipboard, exit>>
       \/ /\ IsKey(msg, "enter")
          /\ SelectedProjectIndex < 0
          /\ Ignore(msg)
       \/ /\ IsNewKey(msg)
          /\ currentView' = "AddProjectView"
          /\ inputBuffer' = <<>>
          /\ Processed(msg, "none")
          /\ UNCHANGED <<projectList, projects, cursor, selectedProject,
                         urlNameBuffer, focusedField, message, file, clipboard,
                         exit>>
       \/ /\ ~IsQuitKey(msg) /\ ~IsKey(msg, "enter") /\ ~IsNewKey(msg)
          /\ ListUpdate(msg)

UpdateProjectMenu(msg) ==
    /\ Running
    /\ currentView = "ProjectMenuView"
    /\ \/ /\ IsQuitKey(msg)
          /\ Quit(msg)
       \/ /\ IsKey(msg, "esc")
          /\ currentView' = "ProjectListView"
          /\ Processed(msg, "none")
          /\ UNCHANGED <<projectList, projects, cursor, selectedProject,
                         inputBuffer, urlNameBuffer, focusedField, message, file,
                         clipboard, exit>>
       \/ /\ IsUpKey(msg) \/ IsDownKey(msg)
          /\ cursor' = IF IsUpKey(msg) THEN CursorUp(cursor)
                       ELSE CursorDown(cursor, 2)
          /\ Processed(msg, "none")
          /\ UNCHANGED <<projectList, projects, currentView, selectedProject,
                         inputBuffer, urlNameBuffer, focusedField, message, file,
                         clipboard, exit>>
       \/ /\ IsKey(msg, "enter")
          /\ currentView' = IF cursor = 0 THEN "ColorListView" ELSE "UrlListView"
          /\ cursor' = 0
          /\ Processed(msg, "none")
          /\ UNCHANGED <<projectList, projects, selectedProject, inputBuffer,
                         urlNameBuffer, focusedField, message, file, clipboard,
                         exit>>
       \/ /\ ~IsQuitKey(msg) /\ ~IsKey(msg, "esc") /\ ~IsUpKey(msg)
          /\ ~IsDownKey(msg) /\ ~IsKey(msg, "enter")
          /\ Ignore(msg)

\* WriteAll handing nothing to the clipboard
WriteAllNothing(s, ok) == NoCopy

\* clipboard.WriteAll(s), whose error the handlers drop: the text handed to
\* the clipboard and whether the clipboard took it
WriteAll(s, ok) == [written |-> TRUE, text |-> s, ok |-> ok]

UpdateColorList(msg) ==
    /\ Running
    /\ currentView = "ColorListView"
    /\ \/ /\ IsQuitKey(msg)
          /\ Quit(msg)
       \/ /\ IsKey(msg, "esc")
          /\ currentView' = "ProjectMenuView"
          /\ Processed(msg, "none")
          /\ UNCHANGED <<projectList, projects, cursor, selectedProject,
                         inputBuffer, urlNameBuffer, focusedField, message, file,
                         clipboard, exit>>
       \/ /\ IsUpKey(msg) \/ IsDownKey(msg)
          /\ cursor' = IF IsUpKey(msg) THEN CursorUp(cursor)
                       ELSE CursorDown(cursor, Len(Selected.Colors))
          /\ Processed(msg, "none")
          /\ UNCHANGED <<projectList, projects, currentView, selectedProject,
                         inputBuffer, urlNameBuffer, focusedField, message, file,
                         clipboard, exit>>
       \/ /\ IsKey(msg, "enter")
          /\ Len(Selected.Colors) > 0
          /\ \E ok \in BOOLEAN :
                clipboard' = WriteAll(Selected.Colors[cursor + 1], ok)
          /\ message' = CopiedMessage(Selected.Colors[cursor + 1])
          /\ Processed(msg, "none")
          /\ UNCHANGED <<projectList, projects, currentView, cursor,
                         selectedProject, inputBuffer, urlNameBuffer,
                         focusedField, file, exit>>
       \/ /\ IsKey(msg, "enter")
          /\ Len(Selected.Colors) = 0
          /\ Ignore(msg)
       \/ /\ IsNewKey(msg)
          /\ currentView' = "AddColorView"
          /\ inputBuffer' = <<>>
          /\ Processed(msg, "none")
          /\ UNCHANGED <<projectList, projects, cursor, selectedProject,
                         urlNameBuffer, focusedField, message, file, clipboard,
                         exit>>
       \/ /\ ~IsQuitKey(msg) /\ ~IsKey(msg, "esc") /\ ~IsUpKey(msg)
          /\ ~IsDownKey(msg) /\ ~IsKey(msg, "enter") /\ ~IsNewKey(msg)
          /\ Ignore(msg)

UpdateUrlList(msg) ==
    /\ Running
    /\ currentView = "UrlListView"
    /\ \/ /\ IsQuitKey(msg)
          /\ Quit(msg)
       \/ /\ IsKey(msg, "esc")
          /\ currentView' = "ProjectMenuView"
          /\ Processed(msg, "none")
          /\ UNCHANGED <<projectList, projects, cursor, selectedProject,
                         inputBuffer, urlNameBuffer, focusedField, message, file,
                         clipboard, exit>>
       \/ /\ IsUpKey(msg) \/ IsDownKey(msg)
          /\ cursor' = IF IsUpKey(msg) THEN CursorUp(cursor)
                       ELSE CursorDown(cursor, Len(Selected.Urls))
          /\ Processed(msg, "none")
          /\ UNCHANGED <<projectList, projects, currentView, selectedProject,
                         inputBuffer, urlNameBuffer, focusedField, message, file,
                         clipboard, exit>>
       \/ /\ IsKey(msg, "enter")
          /\ Len(Selected.Urls) > 0
          /\ \E ok \in BOOLEAN :
                clipboard' = WriteAll(Selected.Urls[cursor + 1].URL, ok)
          /\ message' = CopiedMessage(Selected.Urls[cursor + 1].URL)
          /\ Processed(msg, "none")
          /\ UNCHANGED <<projectList, projects, currentView, cursor,
                         selectedProject, inputBuffer, urlNameBuffer,
                         focusedField, file, exit>>
       \/ /\ IsKey(msg, "enter")
          /\ Len(Selected.Urls) = 0
          /\ Ignore(msg)
       \/ /\ IsNewKey(msg)
          /\ currentView' = "AddUrlView"
          /\ inputBuffer' = <<>>
          /\ urlNameBuffer' = <<>>
          /\ focusedField' = 0
          /\ Processed(msg, "none")
          /\ UNCHANGED <<projectList, projects, cursor, selectedProject, message,
                         file, clipboard, exit>>
       \/ /\ ~IsQuitKey(msg) /\ ~IsKey(msg, "esc") /\ ~IsUpKey(msg)
          /\ ~IsDownKey(msg) /\ ~IsKey(msg, "enter") /\ ~IsNewKey(msg)
          /\ Ignore(msg)

(***************************************************************************)
(* The text views.  saves is the set of outcomes saveProjects may have.    *)
(***************************************************************************)
\* Cancelled keeping the typed text
CancelledKeepingText(v) ==
    /\ currentView' = v
    /\ inputBuffer' = inputBuffer

\* "esc" in a text view: back to the list view v with m.inputBuffer emptied
Cancelled(v) ==
    /\ currentView' = v
    /\ inputBuffer' = <<>>

\* the store after updateAddProject appends Project{Name: buf}
WithProject(ps, buf) ==
    Append(ps, [Name |-> buf, Colors |-> <<>>, Urls |-> <<>>])

\* WithColor putting the new color in front
WithColorInFront(ps, sel, buf) ==
    [ps EXCEPT ![sel + 1].Colors = <<buf>> \o @]

\* the store after updateAddColor appends buf to the colors of project sel
WithColor(ps, sel, buf) ==
    [ps EXCEPT ![sel + 1].Colors = Append(@, buf)]

\* WithUrl appending to the first project, whichever is selected
WithUrlInFirst(ps, sel, name, url) ==
    [ps EXCEPT ![1].Urls = Append(@, [Name |-> name, URL |-> url])]

\* the store after updateAddUrl appends namedURL{name, url} to the URLs of
\* project sel
WithUrl(ps, sel, name, url) ==
    [ps EXCEPT ![sel + 1].Urls = Append(@, [Name |-> name, URL |-> url])]

\* m.updateProjectListItems(); m.saveProjects() on the store ps
ItemsAndSave(msg, ps, r) ==
    /\ projectList' = [projectList EXCEPT !.items = ProjectItems(ps)]
    /\ file' = SavedFile(ps, r)
    /\ message' = SavedMessage(r)
    /\ Processed(msg, r)

UpdateAddProject(msg, saves) ==
    /\ Running
    /\ currentView = "AddProjectView"
    /\ \/ /\ IsKey(msg, "ctrl+c")
          /\ Quit(msg)
       \/ /\ IsKey(msg, "esc")
          /\ Cancelled("ProjectListView")
          /\ Processed(msg, "none")
          /\ UNCHANGED <<projectList, projects, cursor, selectedProject,
                         urlNameBuffer, focusedField, message, file, clipboard,
                         exit>>
       \/ /\ IsKey(msg, "enter")
          /\ ValidProjectName(inputBuffer)
          /\ Entities(projects) < MaxEntities
          /\ projects' = WithProject(projects, inputBuffer)
          /\ \E r \in saves : ItemsAndSave(msg, projects', r)
          /\ currentView' = "ProjectListView"
          /\ inputBuffer' = <<>>
          /\ UNCHANGED <<cursor, selectedProject, urlNameBuffer, focusedField,
                         clipboard, exit>>
       \/ /\ IsKey(msg, "enter")
          /\ ~ValidProjectName(inputBuffer)
          /\ Ignore(msg)
       \/ /\ IsKey(msg, "backspace")
          /\ inputBuffer' = IF Len(inputBuffer) > 0 THEN DropLastByte(inputBuffer)
                            ELSE inputBuffer
          /\ Processed(msg, "none")
          /\ UNCHANGED <<projectList, projects, currentView, cursor,
                         selectedProject, urlNameBuffer, focusedField, message,
                         file, clipboard, exit>>
       \/ /\ IsKey(msg, "space") \/ IsKey(msg, "runes")
          /\ inputBuffer' = inputBuffer \o
                (IF IsKey(msg, "space") THEN <<32>> ELSE RunesToString(msg.runes))
          /\ Len(inputBuffer') <= MaxName
          /\ Processed(msg, "none")
          /\ UNCHANGED <<projectList, projects, currentView, cursor,
                         selectedProject, urlNameBuffer, focusedField, message,
                         file, clipboard, exit>>
       \/ /\ msg.type \notin {"ctrl+c", "esc", "enter", "backspace", "space",
                              "runes"}
          /\ Ignore(msg)

UpdateAddColor(msg, saves, max) ==
    /\ Running
    /\ currentView = "AddColorView"
    /\ \/ /\ IsKey(msg, "ctrl+c")
          /\ Quit(msg)
       \/ /\ IsKey(msg, "esc")
          /\ Cancelled("ColorListView")
          /\ Processed(msg, "none")
          /\ UNCHANGED <<projectList, projects, cursor, selectedProject,
                         urlNameBuffer, focusedField, message, file, clipboard,
                         exit>>
       \/ /\ IsKey(msg, "enter")
          /\ ValidHex(inputBuffer)
          /\ Entities(projects) < MaxEntities
          /\ projects' = WithColor(projects, selectedProject, inputBuffer)
          /\ \E r \in saves : ItemsAndSave(msg, projects', r)
          /\ currentView' = "ColorListView"
          /\ cursor' = Len(projects'[selectedProject + 1].Colors) - 1
          /\ inputBuffer' = <<>>
          /\ UNCHANGED <<selectedProject, urlNameBuffer, focusedField, clipboard,
                         exit>>
       \/ /\ IsKey(msg, "enter")
          /\ ~ValidHex(inputBuffer)
          /\ Ignore(msg)
       \/ /\ IsKey(msg, "backspace")
          /\ inputBuffer' = IF Len(inputBuffer) > 0 THEN DropLastByte(inputBuffer)
                            ELSE inputBuffer
          /\ Processed(msg, "none")
          /\ UNCHANGED <<projectList, projects, currentView, cursor,
                         selectedProject, urlNameBuffer, focusedField, message,
                         file, clipboard, exit>>
       \/ /\ IsKey(msg, "runes")
          /\ inputBuffer' = IF Len(inputBuffer) < 7
                            THEN inputBuffer \o RunesToString(msg.runes)
                            ELSE inputBuffer
          /\ Len(inputBuffer') <= max
          /\ Processed(msg, "none")
          /\ UNCHANGED <<projectList, projects, currentView, cursor,
                         selectedProject, urlNameBuffer, focusedField, message,
                         file, clipboard, exit>>
       \/ /\ msg.type \notin {"ctrl+c", "esc", "enter", "backspace", "runes"}
          /\ Ignore(msg)

UpdateAddUrl(msg, saves) ==
    /\ Running
    /\ currentView = "AddUrlView"
    /\ \/ /\ IsKey(msg, "ctrl+c")
          /\ Quit(msg)
       \/ /\ IsKey(msg, "esc")
          /\ Cancelled("UrlListView")
          /\ urlNameBuffer' = <<>>
          /\ focusedField' = 0
          /\ Processed(msg, "none")
          /\ UNCHANGED <<projectList, projects, cursor, selectedProject, message,
                         file, clipboard, exit>>
       \/ /\ IsKey(msg, "enter")
          /\ focusedField = 0
          /\ focusedField' = 1
          /\ Processed(msg, "none")
          /\ UNCHANGED <<projectList, projects, currentView, cursor,
                         selectedProject, inputBuffer, urlNameBuffer, message,
                         file, clipboard, exit>>
       \/ /\ IsKey(msg, "enter")
          /\ focusedField # 0
          /\ ValidUrl(urlNameBuffer, inputBuffer)
          /\ Entities(projects) < MaxEntities
          /\ projects' = WithUrl(projects, selectedProject, urlNameBuffer,
                                 inputBuffer)
          /\ \E r \in saves : ItemsAndSave(msg, projects', r)
          /\ currentView' = "UrlListView"
          /\ cursor' = Len(projects'[selectedProject + 1].Urls) - 1
          /\ urlNameBuffer' = <<>>
          /\ inputBuffer' = <<>>
          /\ focusedField' = 0
          /\ UNCHANGED <<selectedProject, clipboard, exit>>
       \/ /\ IsKey(msg, "enter")
          /\ focusedField # 0
          /\ ~ValidUrl(urlNameBuffer, inputBuffer)
          /\ Ignore(msg)
       \/ /\ IsKey(msg, "backspace")
          /\ IF focusedField = 0
             THEN /\ urlNameBuffer' = IF Len(urlNameBuffer) > 0
                                      THEN DropLastByte(urlNameBuffer)
                                      ELSE urlNameBuffer
                  /\ UNCHANGED inputBuffer
             ELSE /\ inputBuffer' = IF Len(inputBuffer) > 0
                                    THEN DropLastByte(inputBuffer)
                                    ELSE inputBuffer
                  /\ UNCHANGED urlNameBuffer
          /\ Processed(msg, "none")
          /\ UNCHANGED <<projectList, projects, currentView, cursor,
                         selectedProject, focusedField, message, file, clipboard,
                         exit>>
       \/ /\ IsKey(msg, "tab")
          /\ focusedField' = (focusedField + 1) % 2
          /\ Processed(msg, "none")
          /\ UNCHANGED <<projectList, projects, currentView, cursor,
                         selectedProject, inputBuffer, urlNameBuffer, message,
                         file, clipboard, exit>>
       \/ /\ IsKey(msg, "space") \/ IsKey(msg, "runes")
          /\ LET text == IF IsKey(msg, "space") THEN <<32>>
                         ELSE RunesToString(msg.runes)
             IN  IF focusedField = 0
                 THEN /\ urlNameBuffer' = urlNameBuffer \o text
                      /\ Len(urlNameBuffer') <= MaxName
                      /\ UNCHANGED inputBuffer
                 ELSE /\ inputBuffer' = inputBuffer \o text
                      /\ Len(inputBuffer') <= MaxName
                      /\ UNCHANGED urlNameBuffer
          /\ Processed(msg, "none")
          /\ UNCHANGED <<projectList, projects, currentView, cursor,
                         selectedProject, focusedField, message, file, clipboard,
                         exit>>
       \/ /\ msg.type \notin {"ctrl+c", "esc", "enter", "backspace", "tab",
                              "space", "runes"}
          /\ Ignore(msg)

(***************************************************************************)
(* Update for a tea.WindowSizeMsg, and View.                               *)
(***************************************************************************)
\* Update resizes the list widget and returns the model
WindowSize ==
    /\ Running
    /\ Ignore([type |-> "resize", runes |-> <<>>])

\* MessageViews without the URL list
MessageViewsOfTwo == {"ProjectListView", "ColorListView"}

\* the views whose renderer displays and clears m.message
MessageViews == {"ProjectListView", "ColorListView", "UrlListView"}

\* View: the renderers of the three list views display a pending status
\* message and clear it; the other renderers do not read it
View ==
    /\ exit = "running"
    /\ phase = "view"
    /\ phase' = "update"
    /\ rendered' = IF currentView \in MessageViews THEN message ELSE NoMessage
    /\ message' = IF currentView \in MessageViews THEN NoMessage ELSE message
    /\ lastKey' = "none"
    /\ lastSave' = "none"
    /\ clipboard' = NoCopy
    /\ UNCHANGED <<projectList, projects, currentView, cursor, selectedProject,
                   inputBuffer, urlNameBuffer, focusedField, file, exit>>

Update(saves) ==
    \/ \E msg \in KeyMsgs : UpdateProjectList(msg)
    \/ \E msg \in KeyMsgs : UpdateProjectMenu(msg)
    \/ \E msg \in KeyMsgs : UpdateColorList(msg)
    \/ \E msg \in KeyMsgs : UpdateUrlList(msg)
    \/ \E msg \in KeyMsgs : UpdateAddProject(msg, saves)
    \/ \E msg \in KeyMsgs : UpdateAddColor(msg, saves, MaxHex)
    \/ \E msg \in KeyMsgs : UpdateAddUrl(msg, saves)
    \/ WindowSize

Next == Update(SaveOutcomes) \/ View

Spec == Init /\ [][Next]_vars

\* the program in an environment where saveProjects never fails
NextWritesOk == Update({"ok"}) \/ View

SpecWritesOk == Init /\ [][NextWritesOk]_vars

\* AddColor as opened on the first project of a session started without a data
\* file: the keys n, '#', enter, enter, enter, n lead to this state
InitAddColor ==
    /\ projects = WithProject(<<>>, <<35>>)
    /\ projectList = [items |-> ProjectItems(projects), index |-> 0]
    /\ file = JsonFile(MarshalIndent(projects))
    /\ currentView = "AddColorView"
    /\ cursor = 0
    /\ selectedProject = 0
    /\ inputBuffer = <<>>
    /\ urlNameBuffer = <<>>
    /\ focusedField = 0
    /\ message = NoMessage
    /\ clipboard = NoCopy
    /\ exit = "running"
    /\ phase = "view"
    /\ lastKey = "n"
    /\ lastSave = "none"
    /\ rendered = NoMessage

\* the events of the AddColor view alone, its buffer let to grow to MaxTyped
NextAddColor ==
    \/ \E msg \in KeyMsgs : UpdateAddColor(msg, SaveOutcomes, MaxTyped)
    \/ View

SpecAddColor == InitAddColor /\ [][NextAddColor]_vars

(***************************************************************************)
(* Properties.                                                             *)
(***************************************************************************)
\* a step in which Update handled the key named k in view v
Handled(v, k) ==
    /\ phase = "update"
    /\ phase' = "view"
    /\ currentView = v
    /\ lastKey' = k

\* after Update handled the key named k (View has not run yet)
After(k) == phase = "view" /\ lastKey = k

ProjectViews == {"ProjectMenuView", "ColorListView", "UrlListView",
                 "AddColorView", "AddUrlView"}

\* C1: whenever the view is ProjectMenu, ColorList, UrlList, AddColor or
\* AddUrl, selectedProject is an index of projects.
C1_SelectedProjectInRange ==
    currentView \in ProjectViews =>
        (selectedProject >= 0 /\ selectedProject < Len(projects))

\* C1 witness: the second of two projects is open in its color list.
C1_Witness ==
    /\ currentView = "ColorListView"
    /\ Len(projects) = 2
    /\ selectedProject = 1

\* the size of the list a list view shows
ActiveCount ==
    IF currentView = "ColorListView" THEN Len(Selected.Colors)
    ELSE Len(Selected.Urls)

ItemViews == {"ColorListView", "UrlListView"}

C2_Bounds ==
    currentView \in ItemViews =>
        IF ActiveCount > 0 THEN cursor >= 0 /\ cursor <= ActiveCount - 1
        ELSE cursor = 0

C2_Moves ==
    \A v \in ItemViews :
        /\ (Handled(v, "up") \/ Handled(v, "k")) =>
              /\ currentView' = v
              /\ cursor' = IF cursor = 0 THEN cursor ELSE cursor - 1
        /\ (Handled(v, "down") \/ Handled(v, "j")) =>
              /\ currentView' = v
              /\ cursor' = IF ActiveCount = 0 \/ cursor = ActiveCount - 1
                            THEN cursor ELSE cursor + 1

\* C2: in ColorList and UrlList the cursor is within [0, n-1] of the list of
\* the selected project (0 when the list is empty); up at 0 and down at the
\* last entry leave it where it is, any other up or down moves it by one.  On
\* the empty list the only position is 0 and both keys leave it there.
C2_CursorInList == []C2_Bounds /\ [][C2_Moves]_vars

\* C2 witness: down has moved the cursor to the last of three URLs.
C2_Witness ==
    /\ After("down")
    /\ currentView = "UrlListView"
    /\ Len(Selected.Urls) = 3
    /\ cursor = 2

\* C3: in ProjectMenu the cursor is 0 or 1.
C3_MenuCursor == currentView = "ProjectMenuView" => cursor \in {0, 1}


\* the project list loadProjects would return for the data file
Persisted == LoadProjects(file).projects

\* C4: when no file write fails, after every processed event the persisted
\* project list equals the in-memory one (an absent file is the empty list).
C4_PersistedEqualsMemory ==
    exit = "running" => (~LoadProjects(file).err /\ Persisted = projects)

\* C5: the number of projects grows by one on every AddProject confirm with a
\* non-empty name buffer and never otherwise, so it is the initial count plus
\* the number of such confirms; duplicate names count each.
C5_ProjectCount ==
    [][Len(projects') = Len(projects) +
          (IF Handled("AddProjectView", "enter") /\ inputBuffer # <<>>
           THEN 1 ELSE 0)]_vars

\* C5 witness: a confirm has added a second project with the name of the first.
C5_Witness ==
    /\ After("enter")
    /\ lastSave # "none"
    /\ Len(projects) = 2
    /\ projects[1].Name = projects[2].Name

\* the hex format of the specification: '#' first, 4 or 7 characters in all
HexFormat(buf) == HasPrefixHash(buf) /\ RuneCount(buf) \in {4, 7}

\* the step appended buf to the colors of the selected project
ColorAppended(buf) ==
    projects' = [projects EXCEPT ![selectedProject + 1].Colors = Append(@, buf)]

\* C6: on confirm in AddColor the buffer is appended as a color if and only if
\* it starts with '#' and has exactly 4 or exactly 7 characters.
C6_AcceptedIffHexFormat ==
    [][Handled("AddColorView", "enter") =>
          /\ ColorAppended(inputBuffer) <=> HexFormat(inputBuffer)
          /\ ~ColorAppended(inputBuffer) => projects' = projects]_vars

\* a is a prefix of b
IsPrefix(a, b) == Len(a) <= Len(b) /\ SubSeq(b, 1, Len(a)) = a

\* the store qs keeps every project, color and URL of ps, in place
Extends(ps, qs) ==
    /\ Len(ps) <= Len(qs)
    /\ \A i \in 1..Len(ps) :
          /\ qs[i].Name = ps[i].Name
          /\ IsPrefix(ps[i].Colors, qs[i].Colors)
          /\ IsPrefix(ps[i].Urls, qs[i].Urls)

\* C7: the store is append-only: across every step the projects are a prefix
\* of the new projects, each with its name and with its colors and URLs a
\* prefix of its new ones.
C7_AppendOnly == [][Extends(projects, projects')]_vars

\* C7 witness: a color has been added after a different first color.
C7_Witness ==
    /\ After("enter")
    /\ lastSave # "none"
    /\ currentView = "ColorListView"
    /\ Len(Selected.Colors) = 2
    /\ Selected.Colors[1] # Selected.Colors[2]

\* the save of this step failed
SaveFailed == lastSave' \notin {"none", "ok"}

\* the view an accepted confirm in view v leads to
ListViewOf(v) ==
    IF v = "AddProjectView" THEN "ProjectListView"
    ELSE IF v = "AddColorView" THEN "ColorListView"
    ELSE "UrlListView"

\* what a failed save leaves apart from the file: the process runs, the entity
\* is in the store, the view has advanced and the message is an error text
FailedSaveKeepsGoing ==
    /\ exit' = "running"
    /\ Extends(projects, projects')
    /\ Entities(projects') = Entities(projects) + 1
    /\ currentView' = ListViewOf(currentView)
    /\ inputBuffer' = <<>>
    /\ message'.kind \in {"Error getting data path", "Error writing data"}

\* a save that succeeds writes the whole in-memory list
GoodSaveWritesAll ==
    lastSave' = "ok" => file' = JsonFile(MarshalIndent(projects'))

\* C8 as stated: a failed save leaves the process running, the entity in the
\* store, the view advanced, an error message, and the file with its previous
\* content; the next save that succeeds writes the list with that entity.
C8_FailedSaveKeepsFile ==
    [][/\ SaveFailed => (FailedSaveKeepsGoing /\ file' = file)
       /\ GoodSaveWritesAll]_vars

\* C8 amended: as above, but the file keeps its previous content only when the
\* failure comes before the file is opened for writing; a write that fails
\* after the open leaves the file truncated, a close that fails leaves the new
\* list written.
C8_FailedSave ==
    [][/\ SaveFailed =>
            /\ FailedSaveKeepsGoing
            /\ lastSave' \in {"patherr", "openerr"} => file' = file
            /\ lastSave' = "writeerr" => file'.kind = "damaged"
            /\ lastSave' = "closeerr" => file' = JsonFile(MarshalIndent(projects'))
       /\ GoodSaveWritesAll]_vars

\* C8 witness: the save after an added color failed while writing.
C8_Witness ==
    /\ After("enter")
    /\ lastSave = "writeerr"
    /\ currentView = "ColorListView"
    /\ message.kind = "Error writing data"
    /\ file.kind = "damaged"
    /\ Len(Selected.Colors) = 1

\* a confirm the specification rejects
RejectedConfirm ==
    \/ Handled("AddProjectView", "enter") /\ inputBuffer = <<>>
    \/ Handled("AddColorView", "enter") /\ ~HexFormat(inputBuffer)
    \/ /\ Handled("AddUrlView", "enter")
       /\ focusedField = 1
       /\ (urlNameBuffer = <<>> \/ inputBuffer = <<>>)

NoOp ==
    /\ UNCHANGED <<projects, currentView, cursor, inputBuffer, urlNameBuffer,
                   focusedField, message, file>>
    /\ lastSave' = "none"

\* C9: a rejected submission (empty project name, a buffer that is not in the
\* hex format, an empty URL name or URL on field 1) changes nothing and saves
\* nothing.
C9_RejectedIsNoOp == [][RejectedConfirm => NoOp]_vars

\* a confirm the handlers reject
RejectedByCode ==
    \/ Handled("AddProjectView", "enter") /\ inputBuffer = <<>>
    \/ Handled("AddColorView", "enter") /\ ~ColorAppended(inputBuffer)
    \/ /\ Handled("AddUrlView", "enter")
       /\ focusedField = 1
       /\ (urlNameBuffer = <<>> \/ inputBuffer = <<>>)

\* every confirm the handlers do reject changes nothing and saves nothing
RejectedByCodeIsNoOp == [][RejectedByCode => NoOp]_vars

\* C10: in AddUrl a confirm while the name buffer is empty creates no URL,
\* whichever field is focused; the view stays AddUrl and both buffers keep
\* what they held.
C10_EmptyNameNeverCreates ==
    [][(Handled("AddUrlView", "enter") /\ urlNameBuffer = <<>>) =>
          /\ projects' = projects
          /\ currentView' = "AddUrlView"
          /\ UNCHANGED <<inputBuffer, urlNameBuffer>>]_vars

\* C10 witness: a confirm on the URL field with a URL typed and no name.
C10_Witness ==
    /\ After("enter")
    /\ currentView = "AddUrlView"
    /\ focusedField = 1
    /\ urlNameBuffer = <<>>
    /\ inputBuffer # <<>>

\* the step appended {name, url} to the URLs of the selected project
UrlAppended(name, url) ==
    projects' = [projects EXCEPT ![selectedProject + 1].Urls =
                    Append(@, [Name |-> name, URL |-> url])]

\* what an accepted add in AddColor or AddUrl leaves besides the store: the
\* list view v, the cursor on the last of the n entries, the buffers empty and
\* the first field focused
OnNewEntry(v, n) ==
    /\ currentView' = v
    /\ cursor' = n - 1
    /\ inputBuffer' = <<>>
    /\ urlNameBuffer' = <<>>
    /\ focusedField' = 0

\* C11: a confirm in AddColor with a buffer in the hex format appends the
\* buffer as the last color of the selected project, and a confirm in AddUrl on
\* field 1 with both buffers non-empty appends {name buffer, URL buffer} as its
\* last URL; either sets the view to the list, the cursor to the index of the
\* new last entry, empties the buffers and sets focusedField to 0.
C11_AddPlacesCursor ==
    [][/\ (Handled("AddColorView", "enter") /\ HexFormat(inputBuffer)) =>
             /\ ColorAppended(inputBuffer)
             /\ OnNewEntry("ColorListView", Len(Selected.Colors) + 1)
       /\ (/\ Handled("AddUrlView", "enter")
           /\ focusedField = 1
           /\ urlNameBuffer # <<>>
           /\ inputBuffer # <<>>) =>
             /\ UrlAppended(urlNameBuffer, inputBuffer)
             /\ OnNewEntry("UrlListView", Len(Selected.Urls) + 1)]_vars

\* every add the handlers do accept places the cursor on the new entry
AcceptedAddPlacesCursor ==
    [][/\ (Handled("AddColorView", "enter") /\ projects' # projects) =>
             /\ ColorAppended(inputBuffer)
             /\ OnNewEntry("ColorListView", Len(Selected.Colors) + 1)
       /\ (Handled("AddUrlView", "enter") /\ projects' # projects) =>
             /\ focusedField = 1
             /\ UrlAppended(urlNameBuffer, inputBuffer)
             /\ OnNewEntry("UrlListView", Len(Selected.Urls) + 1)]_vars

\* C12: saving the in-memory project list and loading what was saved yields
\* the same projects, in order, with the same names, colors and URLs.
C12_RoundTrip ==
    exit = "running" =>
        LoadProjects(JsonFile(MarshalIndent(projects))).projects = projects

AllViews == {"ProjectListView", "ProjectMenuView", "ColorListView",
             "UrlListView", "AddProjectView", "AddColorView", "AddUrlView"}

ListViews == {"ProjectListView", "ProjectMenuView", "ColorListView",
              "UrlListView"}

\* Update handled the interrupt key, or q in one of the four list views
QuitCommand ==
    \/ \E v \in AllViews : Handled(v, "ctrl+c")
    \/ \E v \in ListViews : Handled(v, "q")

\* C13: ctrl+c in each of the seven views and q in ProjectList, ProjectMenu,
\* ColorList and UrlList end the process with the projects and the data file
\* as they were, and no step is taken once the process has ended.
C13_QuitTerminates ==
    [][/\ QuitCommand => (exit' = "exit0" /\ UNCHANGED <<projects, file>>)
       /\ exit = "running"]_vars

\* C13 witness: ctrl+c has ended the process in AddUrl with a URL typed.
C13_Witness ==
    /\ exit = "exit0"
    /\ lastKey = "ctrl+c"
    /\ currentView = "AddUrlView"
    /\ focusedField = 1
    /\ inputBuffer # <<>>

\* the state the program starts in, by what the data file is
StartsAsLoaded ==
    /\ file.kind = "damaged" => exit = "exit1"
    /\ file.kind # "damaged" =>
          /\ exit = "running"
          /\ currentView = "ProjectListView"
          /\ projects = Persisted
    /\ file.kind = "absent" => projects = <<>>

C15_MessageTransient ==
    /\ [](phase = "update" => message = NoMessage)
    /\ [][(phase = "view" /\ phase' = "update") =>
              (rendered' = message /\ message' = NoMessage)]_vars

\* C15 witness: the URL list has displayed the error of a failed save and the
\* message is empty again.
C15_Witness ==
    /\ phase = "update"
    /\ currentView = "UrlListView"
    /\ rendered.kind = "Error writing data"
    /\ message = NoMessage

\* what "enter", "esc" and the rest leave as it was outside the view
SameStore == UNCHANGED <<projects, file, selectedProject>>

\* C16: a confirm in ProjectList with the item at position i highlighted sets
\* selectedProject to i, the view to ProjectMenu and the cursor to 0, equal
\* names or not; with no projects it changes nothing.
C16_ConfirmSelects ==
    [][Handled("ProjectListView", "enter") =>
          IF Len(projects) > 0
          THEN /\ selectedProject' = projectList.index
               /\ currentView' = "ProjectMenuView"
               /\ cursor' = 0
               /\ UNCHANGED <<projects, file>>
          ELSE UNCHANGED <<projects, file, selectedProject, currentView,
                           cursor>>]_vars

\* the cursors up and down lead to from the cursors of S in ProjectMenu
MenuMoves(S) ==
    S \cup {CursorUp(c) : c \in S} \cup {CursorDown(c, 2) : c \in S}

\* the views a confirm leads to after any number of up and down from cursor c
MenuTargets(c) ==
    {IF d = 0 THEN "ColorListView" ELSE "UrlListView" :
        d \in MenuMoves(MenuMoves(MenuMoves({c})))}

\* C17: a confirm in ProjectMenu leads to ColorList exactly when the cursor is
\* 0 and to UrlList exactly when it is 1 and sets the cursor to 0; a cancel
\* leads to ProjectList; from every ProjectMenu state up, down and confirm
\* reach both lists.
C17_MenuConfirm ==
    /\ [](currentView = "ProjectMenuView" =>
            MenuTargets(cursor) = {"ColorListView", "UrlListView"})
    /\ [][/\ Handled("ProjectMenuView", "enter") =>
               /\ currentView' = "ColorListView" <=> cursor = 0
               /\ currentView' = "UrlListView" <=> cursor = 1
               /\ cursor' = 0
               /\ SameStore
          /\ Handled("ProjectMenuView", "esc") =>
               /\ currentView' = "ProjectListView"
               /\ SameStore]_vars

AddViews == {"AddProjectView", "AddColorView", "AddUrlView"}

\* C18: esc in AddProject, AddColor or AddUrl leads to ProjectList, ColorList
\* or UrlList, leaves both buffers empty and focusedField 0, and leaves the
\* projects, the data file, selectedProject and the cursor as they were.
C18_CancelDiscards ==
    [][\A v \in AddViews :
          Handled(v, "esc") =>
             /\ currentView' = ListViewOf(v)
             /\ inputBuffer' = <<>>
             /\ urlNameBuffer' = <<>>
             /\ focusedField' = 0
             /\ SameStore
             /\ cursor' = cursor]_vars

\* C18 witness: esc has led from AddUrl back to a list of three URLs with the
\* cursor on the last one.
C18_Witness ==
    /\ After("esc")
    /\ currentView = "UrlListView"
    /\ Len(Selected.Urls) = 3
    /\ cursor = 2
    /\ inputBuffer = <<>>
    /\ focusedField = 0

\* a confirm in a list view whose entry at the cursor is s (none when the list
\* is empty): s goes to the clipboard and into the message, whether or not the
\* clipboard takes it; nothing else changes
CopiesEntry(has, s) ==
    /\ IF has
       THEN /\ clipboard'.written
            /\ clipboard'.text = s
            /\ message' = CopiedMessage(s)
       ELSE /\ clipboard' = NoCopy
            /\ message' = message
    /\ exit' = "running"
    /\ SameStore
    /\ UNCHANGED <<currentView, cursor, inputBuffer, urlNameBuffer,
                   focusedField, projectList>>

\* C19: a confirm in ColorList copies the color at the cursor, a confirm in
\* UrlList the url (not the name) of the entry at the cursor, and sets the
\* message; view, cursor and store stay; the state is the same when the
\* clipboard fails; on an empty list nothing is written and no message is set.
C19_ConfirmCopies ==
    [][/\ Handled("ColorListView", "enter") =>
             CopiesEntry(Len(Selected.Colors) > 0,
                         IF Len(Selected.Colors) > 0
                         THEN Selected.Colors[cursor + 1] ELSE <<>>)
       /\ Handled("UrlListView", "enter") =>
             CopiesEntry(Len(Selected.Urls) > 0,
                         IF Len(Selected.Urls) > 0
                         THEN Selected.Urls[cursor + 1].URL ELSE <<>>)]_vars

\* C19 witness: the clipboard has refused the url of an entry whose name is
\* another text, and the message says it was copied.
C19_Witness ==
    /\ After("enter")
    /\ currentView = "UrlListView"
    /\ clipboard.written
    /\ ~clipboard.ok
    /\ clipboard.text = Selected.Urls[cursor + 1].URL
    /\ clipboard.text # Selected.Urls[cursor + 1].Name
    /\ message = CopiedMessage(clipboard.text)

\* s without its last logical character: the longest prefix of s with one
\* character less
DropLastChar(s) ==
    IF s = <<>> THEN <<>>
    ELSE LET shorter == {n \in 0..(Len(s) - 1) :
                            RuneCount(SubSeq(s, 1, n)) = RuneCount(s) - 1}
         IN  SubSeq(s, 1, CHOOSE n \in shorter : \A k \in shorter : k <= n)

\* C20: a backspace in AddProject, AddColor or AddUrl removes the last logical
\* character of the active buffer, of one byte or more, and leaves an empty
\* buffer empty; in AddUrl the buffer of the other field stays.
C20_BackspaceDropsChar ==
    [][/\ (Handled("AddProjectView", "backspace")
              \/ Handled("AddColorView", "backspace")) =>
             inputBuffer' = DropLastChar(inputBuffer)
       /\ Handled("AddUrlView", "backspace") =>
             IF focusedField = 0
             THEN /\ urlNameBuffer' = DropLastChar(urlNameBuffer)
                  /\ inputBuffer' = inputBuffer
             ELSE /\ inputBuffer' = DropLastChar(inputBuffer)
                  /\ urlNameBuffer' = urlNameBuffer]_vars

\* C21: the AddColor buffer never holds more than 7 characters, and text
\* arriving when it holds 7 characters leaves it as it is.
C21_BufferAtMostSeven ==
    /\ [](currentView = "AddColorView" => RuneCount(inputBuffer) <= 7)
    /\ [][(Handled("AddColorView", "runes") /\ RuneCount(inputBuffer) = 7) =>
              inputBuffer' = inputBuffer]_vars

\* text arriving when the buffer holds 7 bytes or more leaves it as it is
FullBufferKeepsText ==
    [][(Handled("AddColorView", "runes") /\ Len(inputBuffer) >= 7) =>
          inputBuffer' = inputBuffer]_vars

\* C22: focusedField is 0 or 1; in ProjectList, ProjectMenu, ColorList and
\* UrlList both buffers are empty and focusedField is 0; so every step into
\* AddProject, AddColor or AddUrl arrives with empty buffers and the name
\* field focused.
C22_BuffersEmptyInLists ==
    /\ [](/\ focusedField \in {0, 1}
          /\ currentView \in ListViews =>
                (inputBuffer = <<>> /\ urlNameBuffer = <<>> /\ focusedField = 0))
    /\ [][(currentView' # currentView /\ currentView' \in AddViews) =>
              /\ inputBuffer' = <<>>
              /\ urlNameBuffer' = <<>>
              /\ focusedField' = 0]_vars

\* C22 witness: AddUrl is opened again after an AddUrl flow that typed a name
\* and a URL on field 1 and added them.
C22_Witness ==
    /\ After("n")
    /\ currentView = "AddUrlView"
    /\ Len(projects) = 1
    /\ Len(Selected.Colors) = 0
    /\ Len(Selected.Urls) = 1
    /\ inputBuffer = <<>>
    /\ urlNameBuffer = <<>>
    /\ focusedField = 0

\* the view the specification gives esc in view v
EscTarget(v) ==
    CASE v \in {"ProjectListView", "ProjectMenuView", "AddProjectView"} ->
            "ProjectListView"
      [] v \in {"ColorListView", "UrlListView"} -> "ProjectMenuView"
      [] v = "AddColorView" -> "ColorListView"
      [] v = "AddUrlView" -> "UrlListView"

\* C23: esc leads one view back towards ProjectList, and in ProjectList stays
\* there, with the process running and the projects and the data file as they
\* were; three esc lead from every view to ProjectList.
C23_EscLeadsHome ==
    [][\A v \in AllViews :
          /\ EscTarget(EscTarget(EscTarget(v))) = "ProjectListView"
          /\ Handled(v, "esc") =>
                /\ currentView' = EscTarget(v)
                /\ exit' = "running"
                /\ UNCHANGED <<projects, file>>]_vars

\* esc in every view but ProjectList leads one view back with the process
\* running; esc in ProjectList ends the process
EscLeadsBackOrQuits ==
    [][\A v \in AllViews :
          Handled(v, "esc") =>
             /\ currentView' = EscTarget(v)
             /\ exit' = IF v = "ProjectListView" THEN "exit0" ELSE "running"
             /\ UNCHANGED <<projects, file>>]_vars

\* an accepted confirm of AddProject, AddColor or AddUrl: one entity more
AcceptedConfirm ==
    /\ \E v \in AddViews : Handled(v, "enter")
    /\ Extends(projects, projects')
    /\ Entities(projects') = Entities(projects) + 1

\* outside the colors (list = "Colors") or the URLs of the selected project the
\* store stays as it was
OnlySelectedChanges(list) ==
    /\ Len(projects') = Len(projects)
    /\ \A i \in 1..Len(projects) :
          /\ projects'[i].Name = projects[i].Name
          /\ (i # selectedProject + 1 \/ list # "Colors") =>
                projects'[i].Colors = projects[i].Colors
          /\ (i # selectedProject + 1 \/ list # "Urls") =>
                projects'[i].Urls = projects[i].Urls

\* C24: only an accepted confirm in AddProject, AddColor or AddUrl changes the
\* projects, saves or changes the data file, and every accepted confirm saves;
\* an accepted AddColor changes only the colors, an accepted AddUrl only the
\* URLs, of the selected project; selectedProject changes in ProjectList only.
C24_Frame ==
    [][/\ (projects' # projects \/ file' # file \/ lastSave' # "none")
             <=> AcceptedConfirm
       /\ (Handled("AddColorView", "enter") /\ projects' # projects) =>
             OnlySelectedChanges("Colors")
       /\ (Handled("AddUrlView", "enter") /\ projects' # projects) =>
             OnlySelectedChanges("Urls")
       /\ currentView # "ProjectListView" =>
             selectedProject' = selectedProject]_vars

\* C24 witness: a URL has been added to the second of two projects, the first
\* left without URLs.
C24_Witness ==
    /\ After("enter")
    /\ lastSave # "none"
    /\ currentView = "UrlListView"
    /\ Len(projects) = 2
    /\ selectedProject = 1
    /\ Len(projects[2].Urls) = 1
    /\ projects[1].Urls = <<>>

=============================================================================
